---- MODULE Spec2Model ----
(***************************************************************************)
(* A model of BTranspiler (src/src/index.ts): the registration of folder   *)
(* descriptors (addFolder, addParentPath, validateFolder, checkFile) and   *)
(* the asynchronous mirroring run (transform, removeOutdirFiles,           *)
(* transformFolder, transformFile, addTransformedFile).                    *)
(*                                                                         *)
(* Strings that the code takes apart (file names: endsWith, replace) are   *)
(* sequences of characters.  A relative directory path "a/b/c" is the      *)
(* sequence of its segments <<"a","b","c">>; "" is <<>>.                    *)
(*                                                                         *)
(* One step of the model is one run of the JavaScript thread from an event *)
(* (a call by the user, the completion of a Bun.write) to the point where  *)
(* every frame is suspended again: promise continuations (microtasks) run  *)
(* before the next I/O completion is delivered.                            *)
(*                                                                         *)
(* The environment: the output root (cwd/outdir) is not the source root    *)
(* (import.meta.dir) and holds directories and plain files only; the user  *)
(* calls setOutdir before transform(), registers before the first run and  *)
(* awaits a transform() before calling it again; a Bun.write may fail, and *)
(* into a directory that is gone it either fails or re-creates the path    *)
(* (createPath), depending on the Bun version.                             *)
(***************************************************************************)
EXTENDS Integers, Sequences, FiniteSets, TLC

\* ------------------------------------------------------------------ bounds
MaxCalls == 2      \* addFolder calls made by the user
MaxRuns == 2       \* transform() calls made by the user

\* ------------------------------------------------- optional values (x?: T)
None == [some |-> FALSE, v |-> <<>>]
Some(x) == [some |-> TRUE, v |-> x]

\* ------------------------------------------------------------ file names
Xts == <<"x", ".", "t", "s">>
Xjs == <<"x", ".", "j", "s">>
Xmd == <<"x", ".", "m", "d">>
Tsts == <<"t", "s", ".", "t", "s">>
Tsjs == <<"t", "s", ".", "j", "s">>
Stale == <<"s", ".", "m", "d">>

\* String.prototype.endsWith
endsWith(f, suf) ==
    /\ Len(f) >= Len(suf)
    /\ SubSeq(f, Len(f) - Len(suf) + 1, Len(f)) = suf

\* String.prototype.replace with a string pattern: the FIRST occurrence only
replace(f, pat, rep) ==
    LET hits == {i \in 1..(Len(f) - Len(pat) + 1) : SubSeq(f, i, i + Len(pat) - 1) = pat}
    IN  IF hits = {} THEN f
        ELSE LET i == CHOOSE k \in hits : \A m \in hits : k <= m
             IN  SubSeq(f, 1, i - 1) \o rep \o SubSeq(f, i + Len(pat), Len(f))

\* the output file name of line 93: file.replace('ts', 'js')
outName(file) == replace(file, <<"t", "s">>, <<"j", "s">>)

\* ------------------------------------------------------------ source tree
\* The source root (import.meta.dir) as it is on disk; the program only reads it.
SrcTree == {<<"a">>, <<"a", "b">>, <<"a", "b", "c">>, <<"c">>}

\* readdirSync of a source directory (the file entries, in listing order)
SrcListing(p) ==
    CASE p = <<"a">> -> <<Tsts, Xmd, Xts>>
      [] p = <<"a", "b">> -> <<Xjs, Xts>>
      [] p = <<"a", "b", "c">> -> <<Xjs, Xts>>
      [] p = <<"c">> -> <<Tsjs, Xts>>
      [] OTHER -> <<>>

\* readFileSync: the text of a source file; "bad" is text the transpiler rejects
SrcText(p, f) == [bad |-> (p = <<"c">> /\ f = Xts), of |-> <<p, f>>]

\* Transpiler.transformSync: the converted text, or a syntax error
transformSync(code) == [ok |-> ~code.bad, v |-> [js |-> code.of]]

IsPrefix(p, q) == Len(p) <= Len(q) /\ SubSeq(q, 1, Len(p)) = p
Range(s) == {s[i] : i \in 1..Len(s)}
Front(s) == SubSeq(s, 1, Len(s) - 1)

\* ------------------------------------------------- the caller's descriptors
\* Folder objects the caller builds and passes as sub_folders.  They are
\* JavaScript objects: addFolder keeps references to them, it does not copy.
Pool == {"d1", "d2", "d3"}
PoolName(d) == CASE d = "d1" -> "b" [] d = "d2" -> "c" [] OTHER -> "a"
PoolExclude(d) == CASE d = "d1" -> Some(<<Xjs>>) [] d = "d2" -> Some(<<Xjs>>) [] OTHER -> None
PoolFolders(d) == CASE d = "d1" -> Some(<<"d2">>) [] OTHER -> None

\* the addFolder calls the user makes: <<folder, exclude, sub_folders>>
Requests ==
    {<<"a", None, None>>,
     <<"a", Some(<<Xts>>), Some(<<"d1">>)>>,
     <<"a", Some(<<Tsts, Xts>>), None>>,
     <<"b", None, None>>,
     <<"c", Some(<<>>), Some(<<"d1">>)>>,
     <<"c", None, Some(<<"d3">>)>>,
     <<"c", Some(<<Xts>>), None>>,
     <<"c", Some(<<Tsjs>>), None>>,
     <<"c", Some(<<Tsts, Xts>>), None>>}

\* the source directory the environment may remove
Deletable == {<<"a", "b">>}

VARIABLES
    outdir,     \* this.outdir: "unset" or the configured name
    folders,    \* this.folders: the registered forest (top-level nodes, in order)
    path,       \* path[d]: the path field of the caller's descriptor d
    srcDirs,    \* the directories of the source root that exist
    outRoot,    \* what cwd/outdir is: "absent", "dir" or "file"
    outDirs,    \* the directories below the output root
    outFiles,   \* the files below the output root: [dir, name, data]
    driver,     \* the promise of the last transform() call
    topIdx,     \* index in this.folders the loop of transform() is awaiting
    pending,    \* the frames of transformFolder suspended on a Bun.write
    unhandled,  \* rejections of promises nobody awaits
    alive,      \* the process has not been ended by an unhandled rejection
    calls,      \* number of addFolder calls so far
    runs,       \* number of transform() calls so far
    last,       \* the last addFolder call and how it ended
    hist        \* what the runs did (observation only): the writes and mkdirs
                \* done, the frames started and failed, per run; whether work
                \* was started while a write was pending (overlap) or after a
                \* failure of the same run (late); the output root's entries at
                \* the last transform() call (stale) and what its wipe left
                \* (survivors); whether a write failed on the disk (ioFail)

vars == <<outdir, folders, path, srcDirs, outRoot, outDirs, outFiles, driver, topIdx,
          pending, unhandled, alive, calls, runs, last, hist>>

\* ------------------------------------------------------------ descriptors
\* the Folder record of a caller's descriptor under the heap h
Node(h, d) == [id |-> d, path |-> h[d], name |-> PoolName(d),
               exclude |-> PoolExclude(d), folders |-> PoolFolders(d)]

\* lines 82 and 173: folder.path?.length !== 0 ? `${folder.path}/${folder.name}` : folder.name
basePath(f) ==
    IF f.path.some /\ f.path.v = <<>> THEN <<f.name>>
    ELSE (IF f.path.some THEN f.path.v ELSE <<"undefined">>) \o <<f.name>>

\* lines 153-162: stamps the descriptor and, before it, its sub folders
RECURSIVE addParentPath(_, _, _)
addParentPath(h, p, d) ==
    LET kids == PoolFolders(d)
        sub[i \in 0..Len(kids.v)] ==
            IF i = 0 THEN h ELSE addParentPath(sub[i - 1], p \o <<PoolName(d)>>, kids.v[i])
        h1 == IF kids.some THEN sub[Len(kids.v)] ELSE h
    IN  [h1 EXCEPT ![d] = Some(p)]

\* lines 49-51: sub_folders.map((f) => this.addParentPath(folder, f))
StampAll(h, folder, subs) ==
    LET st[i \in 0..Len(subs.v)] ==
            IF i = 0 THEN h ELSE addParentPath(st[i - 1], <<folder>>, subs.v[i])
    IN  IF subs.some THEN st[Len(subs.v)] ELSE h

\* lstatSync of a path of the source root: directory p, or file f in directory p
StatDir(src, p) == IF p \in src THEN "dir" ELSE "absent"
StatFile(src, p, f) ==
    IF p \in src /\ f \in Range(SrcListing(p)) THEN "file" ELSE "absent"

\* lines 196-221: stat is what lstatSync found; atSrc is base_path === import.meta.dir
checkFile(stat, dir, error, atSrc) ==
    IF stat = "absent" THEN "throw"
    ELSE IF ~atSrc THEN "stats"
    ELSE IF stat = "dir" /\ ~dir /\ error THEN "throw"
    ELSE IF stat = "dir" /\ ~dir THEN "false"
    ELSE IF stat = "file" /\ dir /\ error THEN "throw"
    ELSE IF stat = "file" /\ dir THEN "false"
    ELSE "stats"

\* line 171: this.folders.find((x) => x.name === folder.name)
findByName(fs, name) == \E i \in 1..Len(fs) : fs[i].name = name

RECURSIVE validateFolder(_, _, _, _)

\* validateFolder with the duplicate test of line 171 moved behind the checks
validateFolderChecksFirst(fs, h, src, f) ==
    LET base == basePath(f)
        exc == IF f.exclude.some THEN f.exclude.v ELSE <<>>
        kids == IF f.folders.some THEN f.folders.v ELSE <<>>
    IN  IF checkFile(StatDir(src, base), TRUE, TRUE, TRUE) = "throw" THEN "throw"
        ELSE IF \E i \in 1..Len(exc) :
                   checkFile(StatFile(src, base, exc[i]), FALSE, TRUE, TRUE) = "throw"
             THEN "throw"
        ELSE IF \E i \in 1..Len(kids) :
                   validateFolder(fs, h, src, Node(h, kids[i])) = "throw"
             THEN "throw"
        ELSE IF findByName(fs, f.name) THEN "false"
        ELSE "true"

\* lines 169-186: "false" (duplicate), "true", or "throw" (checkFile raised)
validateFolder(fs, h, src, f) ==
    IF findByName(fs, f.name) THEN "false"
    ELSE LET base == basePath(f)
             exc == IF f.exclude.some THEN f.exclude.v ELSE <<>>
             kids == IF f.folders.some THEN f.folders.v ELSE <<>>
         IN  IF checkFile(StatDir(src, base), TRUE, TRUE, TRUE) = "throw" THEN "throw"
             ELSE IF \E i \in 1..Len(exc) :
                        checkFile(StatFile(src, base, exc[i]), FALSE, TRUE, TRUE) = "throw"
                  THEN "throw"
             ELSE IF \E i \in 1..Len(kids) :
                        validateFolder(fs, h, src, Node(h, kids[i])) = "throw"
                  THEN "throw"
             ELSE "true"

\* line 53 and line 56: the object literal of a top-level node
TopNode(folder, exclude, subs) ==
    [id |-> folder, path |-> Some(<<>>), name |-> folder,
     exclude |-> Some(IF exclude.some THEN exclude.v ELSE <<>>),
     folders |-> Some(IF subs.some THEN subs.v ELSE <<>>)]

\* ------------------------------------------------------------ the run
\* A frame of transformFolder suspended at line 94, on the write of `file`.
Frame(r, f, top, base, files) ==
    [run |-> r, id |-> f.id, top |-> top, base |-> base, file |-> Head(files),
     code |-> transformSync(SrcText(base, Head(files))).v, rest |-> Tail(files),
     kids |-> IF f.folders.some THEN f.folders.v ELSE <<>>]

\* line 85: the filter of the listing
keepFile(exclude, f) ==
    /\ exclude.some
    /\ \E i \in 1..Len(exclude.v) : exclude.v[i] # f
    /\ (endsWith(f, <<".", "t", "s">>) \/ endsWith(f, <<".", "j", "s">>))

filterFiles(listing, exclude) == SelectSeq(listing, LAMBDA f : keepFile(exclude, f))

\* the result of running a frame until it suspends, returns or throws
Result(m, st, err) == [m |-> m, st |-> st, err |-> err]

NoteStart(m, r) ==
    [m EXCEPT !.hist.overlap = @ \/ (m.pending # {}),
              !.hist.late = @ \/ (\E x \in m.hist.failed : x.run = r)]

\* a floating promise rejected: nobody awaits the call of line 99
Floating(res, r, id) ==
    IF res.st = "threw"
    THEN [res.m EXCEPT !.unhandled = @ \cup {[run |-> r, id |-> id, err |-> res.err]},
                       !.hist.failed = @ \cup {[run |-> r, id |-> id, err |-> res.err]}]
    ELSE res.m

RECURSIVE transformFolder(_, _, _, _, _, _)
RECURSIVE writeLoop(_, _, _, _, _, _, _)

\* lines 90-100, from the head of the for loop: `files` are the files still to do
writeLoop(m, r, h, src, f, top, st) ==
    IF st.files = <<>>
    THEN \* lines 98-100: folder.folders.forEach((f) => this.transformFolder(f))
         LET kids == IF f.folders.some THEN f.folders.v ELSE <<>>
             each[i \in 0..Len(kids)] ==
                 IF i = 0 THEN m
                 ELSE Floating(transformFolder(each[i - 1], r, h, src, Node(h, kids[i]), FALSE),
                               r, kids[i])
         IN  Result(each[Len(kids)], "done", "")
    ELSE \* lines 92-94: transformFile, then the call of Bun.write
         IF st.base \notin src THEN Result(m, "threw", "ENOENT")
         ELSE IF ~transformSync(SrcText(st.base, Head(st.files))).ok
              THEN Result(m, "threw", "SyntaxError")
         ELSE LET m1 == NoteStart(m, r)
              IN  Result([m1 EXCEPT !.pending = @ \cup {Frame(r, f, top, st.base, st.files)}],
                         "suspended", "")

\* lines 80-101, from the call to the first await
transformFolder(m, r, h, src, f, top) ==
    LET base == basePath(f)
        m0 == [NoteStart(m, r) EXCEPT !.hist.started = @ \cup {[run |-> r, id |-> f.id]}]
    IN  IF base \notin src THEN Result(m0, "threw", "ENOENT")
        ELSE IF base \in m0.dirs THEN Result(m0, "threw", "EEXIST")
        ELSE IF Len(base) > 1 /\ Front(base) \notin m0.dirs THEN Result(m0, "threw", "ENOENT")
        ELSE writeLoop([m0 EXCEPT !.dirs = @ \cup {base},
                                  !.hist.mkdirs = @ \cup {[run |-> r, dir |-> base]}],
                       r, h, src, f, top,
                       [base |-> base, files |-> filterFiles(SrcListing(base), f.exclude)])

\* lines 74-77: for (const folder of this.folders) await this.transformFolder(folder)
RECURSIVE driverLoop(_, _, _, _, _, _)
driverLoop(m, r, h, src, fs, i) ==
    IF i > Len(fs) THEN [m |-> m, driver |-> [st |-> "resolved", err |-> ""], idx |-> 0]
    ELSE LET res == transformFolder(m, r, h, src, fs[i], TRUE)
         IN  CASE res.st = "threw" ->
                    [m |-> [res.m EXCEPT !.hist.failed =
                                @ \cup {[run |-> r, id |-> fs[i].id, err |-> res.err]}],
                     driver |-> [st |-> "rejected", err |-> res.err], idx |-> 0]
               [] res.st = "suspended" ->
                    [m |-> res.m, driver |-> [st |-> "running", err |-> ""], idx |-> i]
               [] OTHER -> driverLoop(res.m, r, h, src, fs, i + 1)

\* removeOutdirFiles with the unlinkSync branch of lines 141-143 left out
removeOutdirFilesDirsOnly(o) ==
    LET gone == {d \in o.dirs : Len(d) = 1 /\ checkFile("dir", FALSE, FALSE, FALSE) = "stats"}
    IN  [dirs |-> {d \in o.dirs : ~\E g \in gone : IsPrefix(g, d)},
         files |-> {x \in o.files : ~\E g \in gone : IsPrefix(g, x.dir)}]

\* lines 133-145: what is left of the output root
removeOutdirFiles(o) ==
    LET gone == {d \in o.dirs : Len(d) = 1 /\ checkFile("dir", FALSE, FALSE, FALSE) = "stats"}
    IN  [dirs |-> {d \in o.dirs : ~\E g \in gone : IsPrefix(g, d)},
         files |-> {x \in o.files :
                      /\ ~\E g \in gone : IsPrefix(g, x.dir)
                      /\ ~(x.dir = <<>> /\ checkFile("file", FALSE, FALSE, FALSE) = "stats")}]

\* the immediate children of the output root
RootEntries(o) == [dirs |-> {d \in o.dirs : Len(d) = 1}, files |-> {x \in o.files : x.dir = <<>>}]

Machine == [dirs |-> outDirs, files |-> outFiles, pending |-> pending,
            unhandled |-> unhandled, hist |-> hist]

Install(m) ==
    /\ outDirs' = m.dirs
    /\ outFiles' = m.files
    /\ pending' = m.pending
    /\ unhandled' = m.unhandled
    /\ hist' = m.hist

\* ------------------------------------------------------------ the actions
Init ==
    /\ outdir = "unset"
    /\ folders = <<>>
    /\ path = [d \in Pool |-> None]
    /\ srcDirs = SrcTree
    /\ outRoot \in {"absent", "dir", "file"}
    /\ \/ outRoot # "dir" /\ outDirs = {} /\ outFiles = {}
       \/ /\ outRoot = "dir"
          /\ outDirs = {<<"old">>, <<"a">>}
          /\ outFiles = {[dir |-> d, name |-> Stale, data |-> [js |-> <<d, Stale>>]] :
                             d \in {<<>>, <<"old">>, <<"a">>}}
    /\ driver = [st |-> "idle", err |-> ""]
    /\ topIdx = 0
    /\ pending = {}
    /\ unhandled = {}
    /\ alive = TRUE
    /\ calls = 0
    /\ runs = 0
    /\ last = [name |-> "", result |-> "none", pathsOk |-> TRUE]
    /\ hist = [written |-> {}, mkdirs |-> {}, started |-> {}, failed |-> {},
               overlap |-> FALSE, late |-> FALSE,
               stale |-> [dirs |-> {}, files |-> {}],
               survivors |-> [dirs |-> {}, files |-> {}],
               ioFail |-> FALSE, prevResolved |-> FALSE]

\* lines 29-33
setOutdir ==
    /\ alive
    /\ outdir = "unset"
    /\ outdir' = "dist"
    /\ UNCHANGED <<folders, path, srcDirs, outRoot, outDirs, outFiles, driver, topIdx,
                   pending, unhandled, alive, calls, runs, last, hist>>

\* lines 47-58.  The user registers first and runs afterwards.
addFolder(folder, exclude, sub_folders) ==
    /\ alive
    /\ runs = 0
    /\ calls < MaxCalls
    /\ calls' = calls + 1
    /\ LET h == StampAll(path, folder, sub_folders)
           validated == validateFolder(folders, h, srcDirs, TopNode(folder, exclude, sub_folders))
       IN  /\ path' = h
           /\ folders' = IF validated = "true"
                         THEN Append(folders, TopNode(folder, exclude, sub_folders))
                         ELSE folders
           /\ last' = [name |-> folder,
                       result |-> CASE validated = "true" -> "registered"
                                    [] validated = "false" -> "skipped"
                                    [] OTHER -> "threw",
                       pathsOk |-> validateFolder(<<>>, h, srcDirs,
                                       TopNode(folder, exclude, sub_folders)) # "throw"]
    /\ UNCHANGED <<hist, outdir, srcDirs, outRoot, outDirs, outFiles, driver, topIdx, pending,
                   unhandled, alive, runs>>

\* lines 63-78, from the call to the first await
transform ==
    /\ alive
    /\ outdir # "unset"
    /\ driver.st # "running"
    /\ runs < MaxRuns
    /\ runs' = runs + 1
    /\ IF outRoot = "file"
       THEN /\ driver' = [st |-> "rejected", err |-> "NotADirectory"]
            /\ topIdx' = 0
            /\ UNCHANGED <<outRoot, outDirs, outFiles, pending, unhandled, hist>>
       ELSE LET before == [dirs |-> outDirs, files |-> outFiles]
                o == removeOutdirFiles(before)
                m0 == [Machine EXCEPT
                         !.dirs = o.dirs, !.files = o.files,
                         !.hist.prevResolved = (driver.st = "resolved"),
                         !.hist.stale = RootEntries(before),
                         !.hist.survivors =
                             [dirs |-> before.dirs \cap o.dirs,
                              files |-> before.files \cap o.files]]
                d == driverLoop(m0, runs + 1, path, srcDirs, folders, 1)
            IN  /\ outRoot' = "dir"
                /\ driver' = d.driver
                /\ topIdx' = d.idx
                /\ Install(d.m)
    /\ UNCHANGED <<outdir, folders, path, srcDirs, alive, calls, last>>

Prefixes(p) == {SubSeq(p, 1, k) : k \in 1..Len(p)}

\* lines 109-116 and the continuation of line 94: the write of frame w settles.
\* ok: the disk took the write; createPath: Bun.write makes a missing directory.
addTransformedFile(w, ok, createPath) ==
    /\ alive
    /\ w \in pending
    /\ LET landed == ok /\ (w.base \in outDirs \/ createPath)
           out == [dir |-> w.base, name |-> outName(w.file), data |-> w.code]
           m0 == [Machine EXCEPT !.pending = @ \ {w}]
           m1 == IF landed
                 THEN [m0 EXCEPT
                         !.dirs = @ \cup Prefixes(w.base),
                         !.files = {x \in @ : ~(x.dir = out.dir /\ x.name = out.name)} \cup {out},
                         !.hist.mkdirs = @ \cup {[run |-> w.run, dir |-> q] :
                                                   q \in Prefixes(w.base) \ outDirs},
                         !.hist.written = @ \cup {[run |-> w.run, id |-> w.id, dir |-> w.base,
                                                   src |-> w.file, out |-> out.name]}]
                 ELSE [m0 EXCEPT !.hist.ioFail = @ \/ ~ok]
           f == [id |-> w.id, folders |-> Some(w.kids)]
           res == IF landed
                  THEN writeLoop(m1, w.run, path, srcDirs, f, w.top,
                                 [base |-> w.base, files |-> w.rest])
                  ELSE Result(m1, "threw", "WriteError")
       IN  IF ~w.top
           THEN /\ Install(Floating(res, w.run, w.id))
                /\ UNCHANGED <<driver, topIdx>>
           ELSE CASE res.st = "threw" ->
                       /\ Install([res.m EXCEPT !.hist.failed =
                                     @ \cup {[run |-> w.run, id |-> w.id, err |-> res.err]}])
                       /\ driver' = [st |-> "rejected", err |-> res.err]
                       /\ topIdx' = 0
                  [] res.st = "suspended" ->
                       /\ Install(res.m)
                       /\ UNCHANGED <<driver, topIdx>>
                  [] OTHER ->
                       LET d == driverLoop(res.m, w.run, path, srcDirs, folders, topIdx + 1)
                       IN  /\ Install(d.m)
                           /\ driver' = d.driver
                           /\ topIdx' = d.idx
    /\ UNCHANGED <<outdir, folders, path, srcDirs, outRoot, alive, calls, runs, last>>

\* the environment removes a directory of the source root (with what is below
\* it) between validation and the first run
DeleteSource(p) ==
    /\ runs = 0
    /\ p \in srcDirs
    /\ srcDirs' = {q \in srcDirs : ~IsPrefix(p, q)}
    /\ UNCHANGED <<outdir, folders, path, outRoot, outDirs, outFiles, driver, topIdx,
                   pending, unhandled, alive, calls, runs, last, hist>>

\* the runtime ends the process on a rejection nobody handles
Crash ==
    /\ alive
    /\ unhandled # {}
    /\ alive' = FALSE
    /\ UNCHANGED <<outdir, folders, path, srcDirs, outRoot, outDirs, outFiles, driver,
                   topIdx, pending, unhandled, calls, runs, last, hist>>

Next ==
    \/ setOutdir
    \/ \E q \in Requests : addFolder(q[1], q[2], q[3])
    \/ transform
    \/ \E w \in pending, ok \in BOOLEAN, cp \in BOOLEAN : addTransformedFile(w, ok, cp)
    \/ \E p \in Deletable : DeleteSource(p)
    \/ Crash

Spec == Init /\ [][Next]_vars

\* ------------------------------------------------------------ the claims
Kids(f) == IF f.folders.some THEN Range(f.folders.v) ELSE {}

RECURSIVE Below(_)
Below(d) == {d} \cup UNION {Below(k) : k \in Kids(Node(path, d))}

\* every node of the registered forest, at any depth
ForestNodes ==
    Range(folders) \cup
    {Node(path, d) : d \in UNION {Below(k) : k \in UNION {Kids(f) : f \in Range(folders)}}}

Excluded(f) == IF f.exclude.some THEN Range(f.exclude.v) ELSE {}

IsScript(x) == endsWith(x, <<".", "t", "s">>) \/ endsWith(x, <<".", "j", "s">>)

\* the files the specification keeps: script files not named in excludedFiles
Expected(f) == {x \in Range(SrcListing(basePath(f))) : IsScript(x) /\ x \notin Excluded(f)}

WrittenBy(r, id) == {w.src : w \in {x \in hist.written : x.run = r /\ x.id = id}}

\* the run has resolved, all its work is over and nothing failed
CleanFinish ==
    /\ driver.st = "resolved"
    /\ pending = {}
    /\ unhandled = {}
    /\ hist.failed = {}
    /\ srcDirs = SrcTree

\* C1: after transform() has completed without error, every node of the forest
\* has had exactly its script files that are not excluded converted and written
\* below outputRoot/effectivePath.
C1_KeptIsListingMinusExcluded ==
    CleanFinish =>
        \A f \in ForestNodes :
            /\ WrittenBy(runs, f.id) = Expected(f)
            /\ \A x \in Expected(f) :
                   \E o \in outFiles :
                       /\ o.dir = basePath(f)
                       /\ o.data = transformSync(SrcText(basePath(f), x)).v

\* C2: a file named in a node's excludedFiles is never converted or written by
\* the traversal of that node.
C2_ExcludedNeverWritten ==
    \A f \in ForestNodes : \A w \in hist.written :
        w.id = f.id => w.src \notin Excluded(f)

\* C3: nothing is started while a write is pending, and transform() resolves
\* only when every folder of the forest has been traversed and every write is done.
C3_Sequential ==
    /\ ~hist.overlap
    /\ driver.st = "resolved" =>
           /\ pending = {}
           /\ \A f \in ForestNodes : [run |-> runs, id |-> f.id] \in hist.started

\* C4: when the traversal of a node fails, transform() rejects with that error
\* and nothing is processed afterwards.
C4_FailFast ==
    \A x \in hist.failed :
        x.run = runs =>
            /\ driver = [st |-> "rejected", err |-> x.err]
            /\ ~hist.late

\* the paths of a descriptor tree exist: the directory of every node and every
\* file it excludes
RECURSIVE TreeValid(_, _, _)
TreeValid(f, h, src) ==
    /\ basePath(f) \in src
    /\ \A x \in Excluded(f) : x \in Range(SrcListing(basePath(f)))
    /\ \A k \in Kids(f) : TreeValid(Node(h, k), h, src)

\* C5: addFolder appends a node only if the paths of its whole descriptor tree
\* exist; if one is missing (and the name is new) it raises and the forest is
\* left as it was.
C5_AppendOnlyValidated ==
    [][\A q \in Requests :
          addFolder(q[1], q[2], q[3]) =>
              LET node == TopNode(q[1], q[2], q[3])
                  valid == TreeValid(node, path', srcDirs)
              IN  /\ folders' # folders => valid
                  /\ (~valid /\ ~findByName(folders, q[1])) =>
                         (last'.result = "threw" /\ folders' = folders)]_vars

NoDuplicateNames ==
    \A i, j \in 1..Len(folders) : folders[i].name = folders[j].name => i = j

\* C6: no two top-level nodes carry the same name, and an addFolder call that
\* names a registered top-level node leaves this.folders as it was (the same
\* nodes in the same order) and raises nothing, whatever its other arguments.
C6_DuplicateIsSkipped ==
    /\ []NoDuplicateNames
    /\ [][\A q \in Requests :
             (addFolder(q[1], q[2], q[3]) /\ findByName(folders, q[1])) =>
                 (folders' = folders /\ last'.result = "skipped")]_vars

\* a duplicate call whose paths would not have passed the checks was skipped
C6_Witness ==
    /\ last.result = "skipped"
    /\ ~last.pathsOk
    /\ Len(folders) > 0

\* C7: every nested node of the forest has the effective path of its parent
\* as its parentPath, and stamping it again with that path changes nothing.
C7_ParentPaths ==
    \A f \in ForestNodes :
        \A k \in Kids(f) :
            /\ path[k] = Some(basePath(f))
            /\ addParentPath(path, basePath(f), k) = path

\* C8: what was in the output root when transform() was called (directories
\* with all below them, and plain files) is gone before the run creates or
\* writes anything (hist.survivors is what the wipe of line 72 left, taken
\* before the loop of line 74 starts), and when transform() has resolved every
\* entry of the output root is a directory this run created.
C8_WipeBeforeWrite ==
    /\ hist.survivors = [dirs |-> {}, files |-> {}]
    /\ driver.st = "resolved" =>
           LET root == RootEntries([dirs |-> outDirs, files |-> outFiles])
           IN  /\ root.files = {}
               /\ \A d \in root.dirs : [run |-> runs, dir |-> d] \in hist.mkdirs

\* a run over a populated output root has resolved after writing a file
C8_Witness ==
    /\ driver.st = "resolved"
    /\ hist.stale.dirs # {}
    /\ hist.stale.files # {}
    /\ \E w \in hist.written : w.run = runs

\* the output tree the first run made
FirstRunDirs == {m.dir : m \in {x \in hist.mkdirs : x.run = 1}}
FirstRunFiles ==
    {[dir |-> w.dir, name |-> w.out, data |-> transformSync(SrcText(w.dir, w.src)).v] :
        w \in {x \in hist.written : x.run = 1}}

\* C9: a second transform(), called once the first has resolved, with the same
\* source tree and registrations, succeeds and leaves the output tree the first
\* run produces.
C9_SecondRunSameTree ==
    (/\ runs = 2
     /\ hist.prevResolved
     /\ driver.st # "running"
     /\ pending = {}
     /\ ~hist.ioFail
     /\ \A x \in hist.failed : x.run # 1 /\ x.err # "WriteError")
    => /\ driver.st = "resolved"
       /\ outDirs = FirstRunDirs
       /\ outFiles = FirstRunFiles

\* the name the specification gives the output file: X.ts becomes X.js, X.js stays
TargetName(x) ==
    IF endsWith(x, <<".", "t", "s">>) THEN SubSeq(x, 1, Len(x) - 3) \o <<".", "j", "s">>
    ELSE x

\* C10: every file is written under its source name with only the trailing
\* source suffix replaced by the target suffix.
C10_OnlySuffixReplaced ==
    \A w \in hist.written : w.out = TargetName(w.src)

====
